---------------------------- MODULE Spec2Model ----------------------------
(***************************************************************************)
(* orhfetch: a system-fetch tool.  main (src/src/main.rs) resolves four    *)
(* facts (hostname, OS, shell, uptime), appends the two colour rows and    *)
(* prints the collected facts beside a 7-line banner.                      *)
(*                                                                         *)
(* Rust strings are TLA+ strings.  Three kinds of character cannot be      *)
(* written in a TLA+ string and are written as bracketed names, each       *)
(* standing for ONE character of the source: "<ESC>" is U+001B, "<e711>",  *)
(* "<e712>", "<f489>", "<f64f>" are the icon glyphs and "<2b23>" is the    *)
(* hexagon of the colour rows.  The grave accent U+0060 of the banner is   *)
(* written as the tab character "\t", which the program never handles, so  *)
(* that it still counts as one column.  Byte vectors (command output, the  *)
(* banner table) are sequences of numbers 0..255.                          *)
(***************************************************************************)
EXTENDS Integers, Sequences, FiniteSets, TLC

VARIABLES
    pc,         \* position in main: the next statement to run
    ascii_art,  \* main.rs:162  let ascii_art = get_ascii_art()
    data_list,  \* main.rs:164  let mut data_list: Vec<String>
    inp,        \* what the lookup that ran last read from its environment
    res,        \* the Result each lookup returned so far
    i,          \* main.rs:197  loop index of print_left_to_right
    stdout      \* everything written to standard output so far

vars == <<pc, ascii_art, data_list, inp, res, i, stdout>>

(***************************************************************************)
(* Bounds of the model.                                                    *)
(***************************************************************************)
MaxDays == 1
MaxLines == 3

(***************************************************************************)
(* Result<String, Box<dyn Error>> and Option.                              *)
(***************************************************************************)
Ok(v) == [ok |-> TRUE, val |-> v, err |-> ""]
Err(e) == [ok |-> FALSE, val |-> "", err |-> e]
Some(v) == [some |-> TRUE, val |-> v]
None == [some |-> FALSE]

(***************************************************************************)
(* str methods used by the program.                                        *)
(***************************************************************************)
CharAt(s, k) == SubSeq(s, k, k)

\* str::find(c): position of the first occurrence of the character c, 0 when absent
find_char(s, c) ==
    LET hits == {k \in 1..Len(s) : CharAt(s, k) = c} IN
    IF hits = {} THEN 0 ELSE CHOOSE k \in hits : \A h \in hits : k <= h

starts_with(s, p) == Len(s) >= Len(p) /\ SubSeq(s, 1, Len(p)) = p

strip_prefix(s, p) ==
    IF starts_with(s, p) THEN Some(SubSeq(s, Len(p) + 1, Len(s))) ELSE None

split_once(s, c) ==
    LET k == find_char(s, c) IN
    IF k = 0 THEN None
    ELSE Some(<<SubSeq(s, 1, k - 1), SubSeq(s, k + 1, Len(s))>>)

\* s.replace(c, "") for a one-character pattern c
RECURSIVE remove_char(_, _)
remove_char(s, c) ==
    IF Len(s) = 0 THEN ""
    ELSE (IF CharAt(s, 1) = c THEN "" ELSE CharAt(s, 1)) \o remove_char(Tail(s), c)

\* s.split(c): the pieces between the occurrences of c, empty pieces kept.
\* cut(j) is the position of the j-th occurrence, with 0 and Len(s) + 1 at the ends.
split(s, c) ==
    LET seps == {k \in 1..Len(s) : CharAt(s, k) = c}
        cut(j) == IF j = 0 THEN 0
                  ELSE IF j > Cardinality(seps) THEN Len(s) + 1
                  ELSE CHOOSE k \in seps : Cardinality({h \in seps : h < k}) = j - 1
    IN  [j \in 1..(Cardinality(seps) + 1) |-> SubSeq(s, cut(j - 1) + 1, cut(j) - 1)]

\* Iterator::find over a sequence of lines with the predicate starts_with(p)
RECURSIVE find_starts_with(_, _)
find_starts_with(lines, p) ==
    IF Len(lines) = 0 THEN None
    ELSE IF starts_with(Head(lines), p) THEN Some(Head(lines))
    ELSE find_starts_with(Tail(lines), p)

\* [String]::join(sep)
RECURSIVE join(_, _)
join(parts, sep) ==
    IF Len(parts) = 0 THEN ""
    ELSE IF Len(parts) = 1 THEN parts[1]
    ELSE parts[1] \o sep \o join(Tail(parts), sep)

\* Display of an unsigned integer: its decimal digits
RECURSIVE Dec(_)
Dec(n) ==
    IF n < 10 THEN CharAt("0123456789", n + 1)
    ELSE Dec(n \div 10) \o CharAt("0123456789", (n % 10) + 1)

(***************************************************************************)
(* Bytes and their decoding.                                               *)
(***************************************************************************)
GRAVE == "\t"
Printable ==
    " !\"#$%&'()*+,-./0123456789:;<=>?@ABCDEFGHIJKLMNOPQRSTUVWXYZ[\\]^_"
    \o GRAVE \o "abcdefghijklmnopqrstuvwxyz{|}~"

AsciiCodes == {10} \cup (32..126)

\* the character a one-byte UTF-8 sequence decodes to
Chr(b) == IF b = 10 THEN "\n" ELSE CharAt(Printable, b - 31)

Ord(c) == CHOOSE b \in AsciiCodes : Chr(b) = c

\* the bytes of an ASCII string, as a command writes them
Bytes(s) == [k \in 1..Len(s) |-> Ord(CharAt(s, k))]

RECURSIVE decode(_)
decode(bytes) ==
    IF Len(bytes) = 0 THEN "" ELSE Chr(Head(bytes)) \o decode(Tail(bytes))

\* std::str::from_utf8 on bytes that are ASCII or the never-valid byte 0xff
from_utf8(bytes) ==
    IF \A k \in 1..Len(bytes) : bytes[k] \in AsciiCodes
    THEN Ok(decode(bytes))
    ELSE Err("Utf8Error")

\* u8::from_str_radix(c, 16) on a two-digit lower-case hexadecimal string
HexDigit(c) == find_char("0123456789abcdef", c) - 1
from_str_radix(c) == 16 * HexDigit(CharAt(c, 1)) + HexDigit(CharAt(c, 2))

\* std::env::var: a variable is unset or holds a string
env_var(v) == IF v.set THEN Ok(v.val) ELSE Err("VarError::NotPresent")
Unset == [set |-> FALSE, val |-> ""]
SetTo(s) == [set |-> TRUE, val |-> s]

\* Command::output(): the spawn fails, or the child ran and left a status and stdout
NoSpawn == [spawned |-> FALSE, status |-> 0, stdout |-> <<>>]
Ran(status, bytes) == [spawned |-> TRUE, status |-> status, stdout |-> bytes]
output(cmd) == IF cmd.spawned THEN Ok(cmd.stdout) ELSE Err("io::Error")

\* std::fs::read_to_string
Unreadable == [readable |-> FALSE, content |-> ""]
File(content) == [readable |-> TRUE, content |-> content]
read_to_string(f) == IF f.readable THEN Ok(f.content) ELSE Err("io::Error")

(***************************************************************************)
(* Constants of the program.                                               *)
(***************************************************************************)
ESC == "<ESC>"
COLOUR == ESC \o "[36m"
RESET == ESC \o "[0m"

format_data(key, value) == COLOUR \o key \o RESET \o " " \o value

(***************************************************************************)
(* get_ascii_art: the byte table, split at "0a", each piece parsed from    *)
(* hexadecimal and decoded.                                                *)
(***************************************************************************)
bytes ==
    << "20", "20", "20", "20", "20", "20", "20", "20", "5f", "20", "20", "20", "20", "20", "20",
       "20", "20", "20", "0a", "20", "20", "20", "20", "5f", "20", "28", "60", "2d", "60", "29",
       "20", "5f", "20", "20", "20", "20", "20", "0a", "20", "20", "2f", "60", "20", "27", "2e",
       "5c", "20", "2f", "2e", "27", "20", "60", "5c", "20", "20", "20", "0a", "20", "20", "60",
       "60", "27", "2d", "2e", "2c", "3d", "2c", "2e", "2d", "27", "60", "60", "20", "20", "20",
       "0a", "20", "20", "20", "20", "2e", "27", "2f", "2f", "76", "5c", "5c", "27", "2e", "20",
       "20", "20", "20", "20", "0a", "20", "20", "20", "28", "5f", "2f", "5c", "20", "22", "20",
       "2f", "5c", "5f", "29", "20", "20", "20", "20", "0a", "20", "20", "20", "20", "20", "20",
       "20", "27", "2d", "27", "20", "20", "20", "20", "20", "20", "20" >>

\* slice::split(|s| *s == sep): the runs between the elements equal to sep.
\* cut(j) is the position of the j-th separator, with 0 and Len(xs) + 1 at the ends.
split_slice(xs, sep) ==
    LET seps == {k \in 1..Len(xs) : xs[k] = sep}
        cut(j) == IF j = 0 THEN 0
                  ELSE IF j > Cardinality(seps) THEN Len(xs) + 1
                  ELSE CHOOSE k \in seps : Cardinality({c \in seps : c < k}) = j - 1
    IN  [j \in 1..(Cardinality(seps) + 1) |-> SubSeq(xs, cut(j - 1) + 1, cut(j) - 1)]

\* one piece of the table: every element parsed as a byte, the bytes decoded;
\* both expect() calls abort the program when they fail
art_line(piece) ==
    from_utf8([k \in 1..Len(piece) |-> from_str_radix(piece[k])])

get_ascii_art ==
    LET pieces == split_slice(bytes, "0a") IN
    [k \in 1..Len(pieces) |-> art_line(pieces[k]).val]

(***************************************************************************)
(* get_hostname                                                            *)
(***************************************************************************)
get_hostname(USER, HOSTNAME, hostname_cmd, nodename) ==
    LET user == env_var(USER)
        line(host) == COLOUR \o user.val \o RESET \o "@" \o COLOUR \o host \o RESET
    IN  IF ~user.ok THEN Err(user.err)
        ELSE IF env_var(HOSTNAME).ok THEN Ok(line(env_var(HOSTNAME).val))
        ELSE LET out == output(hostname_cmd) IN
             IF ~out.ok THEN Err(out.err)
             ELSE LET name == from_utf8(out.val) IN
                  IF name.ok THEN Ok(line(remove_char(name.val, "\n")))
                  ELSE Ok(line(nodename))

(***************************************************************************)
(* get_os and its three readers                                            *)
(***************************************************************************)
\* mac_nickname with a fault: the table keyed one release late
mac_nickname_shifted(major) ==
    IF major = "12" THEN "Big Sur"
    ELSE IF major = "13" THEN "Monterey"
    ELSE ""

\* the match of read_mac_release on the text before the first dot
mac_nickname(major) ==
    IF major = "11" THEN "Big Sur"
    ELSE IF major = "12" THEN "Monterey"
    ELSE ""

read_mac_release(productName, productVersion) ==
    LET name_out == output(productName) IN
    IF ~name_out.ok THEN Err(name_out.err)
    ELSE LET name == from_utf8(name_out.val) IN
    IF ~name.ok THEN Err(name.err)
    ELSE LET ver_out == output(productVersion) IN
    IF ~ver_out.ok THEN Err(ver_out.err)
    ELSE LET ver == from_utf8(ver_out.val) IN
    IF ~ver.ok THEN Err(ver.err)
    ELSE LET parts == split_once(ver.val, ".") IN
    IF ~parts.some THEN Err("unrecognised macOS version")
    ELSE Ok(remove_char(name.val, "\n") \o " " \o mac_nickname(parts.val[1]))

read_lsb_release(lsb_release) ==
    LET out == output(lsb_release) IN
    IF ~out.ok THEN Err(out.err) ELSE from_utf8(out.val)

read_os_release(os_release) ==
    LET text == read_to_string(os_release) IN
    IF ~text.ok THEN Err(text.err)
    ELSE LET found == find_starts_with(split(text.val, "\n"), "PRETTY_NAME") IN
    IF ~found.some THEN Err("unrecognised linux distro")
    ELSE LET value == strip_prefix(found.val, "PRETTY_NAME=") IN
    IF ~value.some THEN Err("unrecognised linux distro")
    ELSE Ok(remove_char(value.val, "\""))

\* Result::or_else: the second reader runs only when the first returned Err
lsb_or_os_release(lsb_release, os_release) ==
    LET first == read_lsb_release(lsb_release) IN
    IF first.ok THEN first ELSE read_os_release(os_release)

get_os(sysname, productName, productVersion, lsb_release, os_release) ==
    IF sysname = "Darwin" THEN
        LET r == read_mac_release(productName, productVersion) IN
        IF r.ok THEN Ok(format_data("<e711>", r.val)) ELSE r
    ELSE IF sysname = "Linux" THEN
        LET r == lsb_or_os_release(lsb_release, os_release) IN
        IF r.ok THEN Ok(format_data("<e712>", r.val)) ELSE r
    ELSE Err("unrecognised os")

\* get_shell with a fault: a path outside /bin/ is kept whole instead of refused
get_shell_unwrap_or(SHELL) ==
    LET shell == env_var(SHELL) IN
    IF ~shell.ok THEN Err(shell.err)
    ELSE LET name == strip_prefix(shell.val, "/bin/") IN
    Ok(format_data("<f489>", IF name.some THEN name.val ELSE shell.val))

(***************************************************************************)
(* get_shell                                                               *)
(***************************************************************************)
get_shell(SHELL) ==
    LET shell == env_var(SHELL) IN
    IF ~shell.ok THEN Err(shell.err)
    ELSE LET name == strip_prefix(shell.val, "/bin/") IN
    IF ~name.some THEN Err("unrecognised linux distro")
    ELSE Ok(format_data("<f489>", name.val))

(***************************************************************************)
(* format_uptime.  Rust's % and * have the same precedence and associate   *)
(* to the left: uptime_seconds % 24 * 60 * 60 is ((s % 24) * 60) * 60.     *)
(***************************************************************************)
uptime_days(s) == s \div (24 * 60 * 60)
uptime_hours(s) == ((((s % 24) * 60) * 60)) \div (60 * 60)
uptime_minutes(s) == (s % (60 * 60)) \div 60

uptime_display(s) ==
    (IF uptime_days(s) > 0 THEN Dec(uptime_days(s)) \o "d " ELSE "")
    \o (IF uptime_hours(s) > 0 THEN Dec(uptime_hours(s)) \o "h " ELSE "")
    \o (IF uptime_minutes(s) > 0 THEN Dec(uptime_minutes(s)) \o "m" ELSE "")

format_uptime(s) == Ok(format_data("<f64f>", uptime_display(s)))

\* main.rs:178-182: stat.uptime() may fail; format_uptime runs only when it did not
get_uptime(uptime) ==
    IF uptime.ok THEN format_uptime(uptime.secs) ELSE Err("io::Error")

(***************************************************************************)
(* get_colours                                                             *)
(***************************************************************************)
swatch(first, last) ==
    join([k \in 1..(last - first) |-> ESC \o "[" \o Dec(first + k - 1) \o "m" \o "<2b23>"], " ")

get_colours == <<swatch(30, 38), " " \o swatch(90, 98)>>

(***************************************************************************)
(* The environment a run can meet: what each lookup may read.              *)
(***************************************************************************)
InvalidUtf8 == <<255>>

UserValues == {Unset, SetTo("alice")}
HostnameValues == {Unset, SetTo("box")}
HostnameCmds == {NoSpawn, Ran(0, Bytes("cmdhost\n")), Ran(0, InvalidUtf8)}
NodeNames == {"node"}

Sysnames == {"Darwin", "Linux", "FreeBSD"}
ProductNameCmds == {NoSpawn, Ran(0, InvalidUtf8), Ran(0, Bytes("macOS\n"))}
Versions == {"11.7", "12.6", "12.6.1", "13.0", "14.0", "14"}
ProductVersionCmds ==
    {NoSpawn, Ran(0, InvalidUtf8)} \cup {Ran(0, Bytes(v \o "\n")) : v \in Versions}
LsbCmds ==
    {NoSpawn, Ran(0, InvalidUtf8), Ran(1, <<>>), Ran(0, Bytes("Ubuntu 22.04 LTS\n"))}

PrettyLine == "PRETTY_NAME=\"Test OS 1.0\""
OsReleaseLines == {"NAME=\"Test\"", PrettyLine, "PRETTY_NAME_SHORT=\"Test\""}
RECURSIVE LinesUpTo(_)
LinesUpTo(n) ==
    IF n = 0 THEN {<<>>}
    ELSE LinesUpTo(n - 1)
         \cup {Append(ls, l) : ls \in {x \in LinesUpTo(n - 1) : Len(x) = n - 1},
                               l \in OsReleaseLines}
\* every line of the file ends with a newline
FileOf(lines) == File(join(lines, "\n") \o (IF Len(lines) = 0 THEN "" ELSE "\n"))
OsReleaseFiles == {Unreadable} \cup {FileOf(ls) : ls \in LinesUpTo(MaxLines)}

ShellValues ==
    {Unset, SetTo("/bin/zsh"), SetTo("/usr/bin/zsh"), SetTo("/bin/bash"), SetTo("zsh")}

UptimeSeconds ==
    {((d * 24 + h) * 60 + m) * 60 + sec :
        d \in 0..MaxDays, h \in {0, 1, 23}, m \in {0, 1, 59}, sec \in {0, 1, 59}}
Uptimes == {[ok |-> FALSE, secs |-> 0]} \cup {[ok |-> TRUE, secs |-> n] : n \in UptimeSeconds}

(***************************************************************************)
(* main                                                                    *)
(***************************************************************************)
FactNames == <<"hostname", "os", "shell", "uptime">>
Pending == [ok |-> FALSE, val |-> "", err |-> "pending"]
NoInput == [fn |-> "none"]

\* push with a fault: a failed lookup discards the facts collected before it
push_or_clear(list, r) == IF r.ok THEN Append(list, r.val) ELSE <<>>

\* if let Ok(value) = <lookup> { data_list.push(value); }
push(list, r) == IF r.ok THEN Append(list, r.val) ELSE list

Init ==
    /\ pc = "get_hostname"
    /\ ascii_art = get_ascii_art
    /\ data_list = <<>>
    /\ inp = NoInput
    /\ res = [f \in {FactNames[k] : k \in 1..Len(FactNames)} |-> Pending]
    /\ i = 0
    /\ stdout = ""

main_get_hostname ==
    /\ pc = "get_hostname"
    /\ \E USER \in UserValues, HOSTNAME \in HostnameValues,
          hostname_cmd \in HostnameCmds, nodename \in NodeNames :
          LET r == get_hostname(USER, HOSTNAME, hostname_cmd, nodename) IN
          /\ inp' = [fn |-> "get_hostname", USER |-> USER, HOSTNAME |-> HOSTNAME,
                     hostname_cmd |-> hostname_cmd, nodename |-> nodename]
          /\ res' = [res EXCEPT !["hostname"] = r]
          /\ data_list' = push(data_list, r)
    /\ pc' = "get_os"
    /\ UNCHANGED <<ascii_art, i, stdout>>

\* a command or file the branch taken never touches is not drawn
main_get_os ==
    /\ pc = "get_os"
    /\ \E sysname \in Sysnames :
       \E productName \in (IF sysname = "Darwin" THEN ProductNameCmds ELSE {NoSpawn}),
          productVersion \in (IF sysname = "Darwin" THEN ProductVersionCmds ELSE {NoSpawn}),
          lsb_release \in (IF sysname = "Linux" THEN LsbCmds ELSE {NoSpawn}),
          os_release \in (IF sysname = "Linux" THEN OsReleaseFiles ELSE {Unreadable}) :
          LET r == get_os(sysname, productName, productVersion, lsb_release, os_release) IN
          /\ inp' = [fn |-> "get_os", sysname |-> sysname, productName |-> productName,
                     productVersion |-> productVersion, lsb_release |-> lsb_release,
                     os_release |-> os_release]
          /\ res' = [res EXCEPT !["os"] = r]
          /\ data_list' = push(data_list, r)
    /\ pc' = "get_shell"
    /\ UNCHANGED <<ascii_art, i, stdout>>

main_get_shell ==
    /\ pc = "get_shell"
    /\ \E SHELL \in ShellValues :
          LET r == get_shell(SHELL) IN
          /\ inp' = [fn |-> "get_shell", SHELL |-> SHELL]
          /\ res' = [res EXCEPT !["shell"] = r]
          /\ data_list' = push(data_list, r)
    /\ pc' = "get_uptime"
    /\ UNCHANGED <<ascii_art, i, stdout>>

main_get_uptime ==
    /\ pc = "get_uptime"
    /\ \E uptime \in Uptimes :
          LET r == get_uptime(uptime) IN
          /\ inp' = [fn |-> "get_uptime", uptime |-> uptime]
          /\ res' = [res EXCEPT !["uptime"] = r]
          /\ data_list' = push(data_list, r)
    /\ pc' = "get_colours"
    /\ UNCHANGED <<ascii_art, i, stdout>>

main_get_colours ==
    /\ pc = "get_colours"
    /\ data_list' = Append(Append(data_list, get_colours[1]), get_colours[2])
    /\ inp' = NoInput
    /\ pc' = "print"
    /\ i' = 0
    /\ UNCHANGED <<ascii_art, res, stdout>>

(***************************************************************************)
(* print_left_to_right(ascii_art, data_list): one action per iteration.    *)
(* The index i counts from 0 as in the source; sequences count from 1.     *)
(***************************************************************************)
\* max_len with a fault: the loop stops at the shorter vector
min_len(left, right) == IF Len(left) <= Len(right) THEN Len(left) ELSE Len(right)

max_len(left, right) == IF Len(left) >= Len(right) THEN Len(left) ELSE Len(right)

print_iteration(left, right, k) ==
    (IF k < Len(left) THEN left[k + 1] ELSE "")
    \o (IF k < Len(right) THEN right[k + 1] ELSE "")
    \o "\n"

print_left_to_right ==
    /\ pc = "print"
    /\ i < max_len(ascii_art, data_list)
    /\ stdout' = stdout \o print_iteration(ascii_art, data_list, i)
    /\ i' = i + 1
    /\ UNCHANGED <<pc, ascii_art, data_list, inp, res>>

main_return ==
    /\ pc = "print"
    /\ ~(i < max_len(ascii_art, data_list))
    /\ pc' = "done"
    /\ UNCHANGED <<ascii_art, data_list, inp, res, i, stdout>>

Next ==
    \/ main_get_hostname
    \/ main_get_os
    \/ main_get_shell
    \/ main_get_uptime
    \/ main_get_colours
    \/ print_left_to_right
    \/ main_return

Spec == Init /\ [][Next]_vars

(***************************************************************************)
(* Vocabulary of the properties.                                           *)
(***************************************************************************)
\* the lookup that ran last, and whether it was fn
LastLookup(fn) == inp.fn = fn

\* the values of the lookups that returned Ok, in the order of FactNames
RECURSIVE ResolvedFrom(_)
ResolvedFrom(k) ==
    IF k > Len(FactNames) THEN <<>>
    ELSE (IF res[FactNames[k]].ok THEN <<res[FactNames[k]].val>> ELSE <<>>)
         \o ResolvedFrom(k + 1)
Resolved == ResolvedFrom(1)

\* the lines of standard output: the text before each newline
Lines(text) == LET pieces == split(text, "\n") IN SubSeq(pieces, 1, Len(pieces) - 1)
LastLine(text) == Lines(text)[Len(Lines(text))]
IsBlank(l) == \A k \in 1..Len(l) : CharAt(l, k) = " "
NonBlankCount(text) == Cardinality({k \in 1..Len(Lines(text)) : ~IsBlank(Lines(text)[k])})

\* the rows the print loop is meant to write: banner line k, then fact k when there is one
RECURSIVE Rows(_, _, _)
Rows(left, right, k) ==
    IF k > Len(left) /\ k > Len(right) THEN ""
    ELSE (IF k <= Len(left) THEN left[k] ELSE "")
         \o (IF k <= Len(right) THEN right[k] ELSE "")
         \o "\n" \o Rows(left, right, k + 1)

\* the display the uptime contract describes: hours are what is left of the day
contract_hours(s) == (s % 86400) \div 3600
contract_display(s) ==
    (IF s \div 86400 > 0 THEN Dec(s \div 86400) \o "d " ELSE "")
    \o (IF contract_hours(s) > 0 THEN Dec(contract_hours(s)) \o "h " ELSE "")
    \o (IF (s % 3600) \div 60 > 0 THEN Dec((s % 3600) \div 60) \o "m" ELSE "")

UptimeRan == LastLookup("get_uptime") /\ inp.uptime.ok

(***************************************************************************)
(* C1: for every duration of s seconds format_uptime renders               *)
(* days = s div 86400, hours = (s mod 86400) div 3600 and                  *)
(* minutes = (s mod 3600) div 60, the non-zero units in that order, no     *)
(* seconds; 90061 seconds render "1d 1h 1m".                               *)
(***************************************************************************)
C1_UptimeDecomposition ==
    UptimeRan =>
        /\ res["uptime"] = Ok(format_data("<f64f>", contract_display(inp.uptime.secs)))
        /\ (inp.uptime.secs = 90061 =>
                res["uptime"].val = format_data("<f64f>", "1d 1h 1m"))

(***************************************************************************)
(* C2: for every uptime shorter than 60 seconds the display string is      *)
(* empty and the line is only the icon prefix.                             *)
(***************************************************************************)
C2_ShortUptimeEmpty ==
    (UptimeRan /\ inp.uptime.secs < 60) =>
        res["uptime"] = Ok(format_data("<f64f>", ""))

(***************************************************************************)
(* C3: whenever USER is set get_hostname returns Ok, whatever HOSTNAME and *)
(* the hostname command do; the host is HOSTNAME, else the command's       *)
(* output, else the kernel node name.                                      *)
(***************************************************************************)
C3_host ==
    IF inp.HOSTNAME.set THEN inp.HOSTNAME.val
    ELSE IF inp.hostname_cmd.spawned /\ from_utf8(inp.hostname_cmd.stdout).ok
         THEN remove_char(from_utf8(inp.hostname_cmd.stdout).val, "\n")
    ELSE inp.nodename

C3_HostnameFailsOnlyWithoutUser ==
    LastLookup("get_hostname") =>
        /\ res["hostname"].ok <=> inp.USER.set
        /\ inp.USER.set =>
              res["hostname"].val =
                  COLOUR \o inp.USER.val \o RESET \o "@" \o COLOUR \o C3_host \o RESET

(***************************************************************************)
(* C4: for every combination of failed lookups main runs to completion;    *)
(* the facts it collects are exactly the successful ones in the order      *)
(* hostname, OS, shell, uptime, then colour row 1 and colour row 2; a fact *)
(* is left out if and only if its own lookup failed.                       *)
(***************************************************************************)
\* neither expect() of get_ascii_art fires: every table entry is two hexadecimal
\* digits and every piece decodes
ArtDecodes ==
    /\ \A k \in 1..Len(bytes) :
           HexDigit(CharAt(bytes[k], 1)) >= 0 /\ HexDigit(CharAt(bytes[k], 2)) >= 0
    /\ \A k \in 1..Len(split_slice(bytes, "0a")) : art_line(split_slice(bytes, "0a")[k]).ok

C4_FactsInOrder ==
    /\ ArtDecodes
    /\ pc # "done" => ENABLED Next
    /\ pc \in {"print", "done"} => data_list = Resolved \o get_colours
    /\ pc = "done" => i >= Len(data_list)

C4_Witness ==
    /\ pc = "done"
    /\ res["hostname"].ok /\ ~res["os"].ok /\ res["shell"].ok /\ ~res["uptime"].ok
    /\ Len(data_list) = 4

LsbYieldsDescription(cmd) ==
    /\ cmd.spawned
    /\ cmd.status = 0
    /\ from_utf8(cmd.stdout).ok
    /\ ~IsBlank(remove_char(from_utf8(cmd.stdout).val, "\n"))

C6_PlainFile ==
    /\ inp.os_release.readable
    /\ \E k \in 1..Len(Lines(inp.os_release.content)) :
           Lines(inp.os_release.content)[k] = PrettyLine
    /\ \A k \in 1..Len(Lines(inp.os_release.content)) :
           Lines(inp.os_release.content)[k] \in {PrettyLine, "NAME=\"Test\""}

C6_LsbThenOsRelease ==
    (LastLookup("get_os") /\ inp.sysname = "Linux") =>
        /\ LsbYieldsDescription(inp.lsb_release) =>
              res["os"] = Ok(format_data("<e712>", from_utf8(inp.lsb_release.stdout).val))
        /\ (~LsbYieldsDescription(inp.lsb_release) /\ C6_PlainFile) =>
              res["os"] = Ok(format_data("<e712>", "Test OS 1.0"))

(***************************************************************************)
(* C7: whenever the OS-release file holds a line PRETTY_NAME="V",          *)
(* read_os_release returns Ok(V), whatever lines precede or follow it.     *)
(* read_os_release runs when read_lsb_release returned Err.                *)
(***************************************************************************)
OsReleaseRead ==
    /\ LastLookup("get_os")
    /\ inp.sysname = "Linux"
    /\ ~read_lsb_release(inp.lsb_release).ok

C7_PrettyNameFound ==
    (/\ OsReleaseRead
     /\ inp.os_release.readable
     /\ \E k \in 1..Len(Lines(inp.os_release.content)) :
            Lines(inp.os_release.content)[k] = PrettyLine)
    => res["os"] = Ok(format_data("<e712>", "Test OS 1.0"))

(***************************************************************************)
(* C8 as stated: on Darwin every version string sw_vers reports gives Ok;  *)
(* the nickname is looked up by the text before the first dot, and a       *)
(* version not in the table, a version with no dot included, gives an      *)
(* empty nickname.                                                         *)
(***************************************************************************)
VersionReported ==
    /\ LastLookup("get_os")
    /\ inp.sysname = "Darwin"
    /\ inp.productName.spawned /\ from_utf8(inp.productName.stdout).ok
    /\ inp.productVersion.spawned /\ from_utf8(inp.productVersion.stdout).ok

C8_version == from_utf8(inp.productVersion.stdout).val
C8_has_dot == \E k \in 1..Len(C8_version) : CharAt(C8_version, k) = "."
C8_major ==
    LET dot == CHOOSE k \in 1..Len(C8_version) :
                   /\ CharAt(C8_version, k) = "."
                   /\ \A h \in 1..(k - 1) : CharAt(C8_version, h) # "."
    IN  SubSeq(C8_version, 1, dot - 1)
C8_nickname ==
    IF ~C8_has_dot THEN ""
    ELSE IF C8_major = "12" THEN "Monterey"
    ELSE IF C8_major = "11" THEN "Big Sur"
    ELSE ""
C8_line ==
    format_data("<e711>",
        remove_char(from_utf8(inp.productName.stdout).val, "\n") \o " " \o C8_nickname)

C8_UnmappedVersionNeverFails ==
    VersionReported => res["os"] = Ok(C8_line)

(***************************************************************************)
(* C8 amended: a reported version that contains a dot gives Ok, with the   *)
(* nickname of the text before the first dot (12 is Monterey) and an       *)
(* empty nickname when the table has none (14.0); a reported version with  *)
(* no dot gives the error "unrecognised macOS version".                    *)
(***************************************************************************)
C8_DottedVersionNeverFails ==
    VersionReported =>
        /\ C8_has_dot => res["os"] = Ok(C8_line)
        /\ ~C8_has_dot => res["os"] = Err("unrecognised macOS version")
        /\ C8_version = "12.6\n" => res["os"].val = format_data("<e711>", "macOS Monterey")
        /\ C8_version = "14.0\n" => res["os"].val = format_data("<e711>", "macOS ")

C8_Witness ==
    /\ VersionReported
    /\ C8_version = "14\n"
    /\ ~res["os"].ok
    /\ pc = "get_shell"

(***************************************************************************)
(* C9: get_shell returns Ok with SHELL minus its leading "/bin/" exactly   *)
(* when SHELL is set and starts with "/bin/"; otherwise it returns an      *)
(* error, the shell line is left out and the facts collected before it     *)
(* are unchanged.                                                          *)
(***************************************************************************)
C9_in_bin == inp.SHELL.set /\ Len(inp.SHELL.val) >= 5 /\ SubSeq(inp.SHELL.val, 1, 5) = "/bin/"

C9_ShellPrefix ==
    LastLookup("get_shell") =>
        /\ res["shell"].ok <=> C9_in_bin
        /\ C9_in_bin =>
              res["shell"].val =
                  format_data("<f489>", SubSeq(inp.SHELL.val, 6, Len(inp.SHELL.val)))
        /\ inp.SHELL = SetTo("/bin/zsh") =>
              res["shell"].val = COLOUR \o "<f489>" \o RESET \o " zsh"
        /\ data_list =
              (IF res["hostname"].ok THEN <<res["hostname"].val>> ELSE <<>>)
              \o (IF res["os"].ok THEN <<res["os"].val>> ELSE <<>>)
              \o (IF C9_in_bin THEN <<res["shell"].val>> ELSE <<>>)

C9_Witness ==
    /\ LastLookup("get_shell")
    /\ inp.SHELL = SetTo("/usr/bin/zsh")
    /\ ~res["shell"].ok
    /\ res["hostname"].ok /\ res["os"].ok
    /\ Len(data_list) = 2

(***************************************************************************)
(* C10: the output has max(banner lines, facts) = 7 lines; line k is       *)
(* banner line k immediately followed by the k-th collected fact when      *)
(* there is one; banner lines 1 to 6 have the same width; nothing is       *)
(* printed twice or dropped.                                               *)
(***************************************************************************)
C10_SideBySide ==
    pc = "done" =>
        /\ Len(Lines(stdout)) = max_len(ascii_art, data_list)
        /\ Len(Lines(stdout)) = 7
        /\ \A k \in 1..Len(Lines(stdout)) :
              Lines(stdout)[k] =
                  ascii_art[k] \o (IF k <= Len(data_list) THEN data_list[k] ELSE "")
        /\ \A k \in 1..6 : Len(ascii_art[k]) = Len(ascii_art[1])

=============================================================================
